---- MODULE Spec2Model ----
(***************************************************************************)
(* Model of create-training-data.ipynb: the notebook's cells as a          *)
(* sequential pipeline (write_jsonl, dataset load, check_format_errors,    *)
(* token counts, cost estimation).                                         *)
(*                                                                         *)
(* Text is abstracted to its length in characters wherever only its token  *)
(* count matters; in the JSONL round trip it is a sequence of characters.  *)
(***************************************************************************)
EXTENDS Integers, Sequences, FiniteSets, TLC

VARIABLES
    pc,                          \* which cell (or loop position) runs next
    dataset,                     \* the loaded list of examples
    errors,                      \* result of check_format_errors(dataset)
    validated,                   \* TRUE once the validation cell has run
    i,                           \* position of `for ex in dataset`
    n_missing_system,
    n_missing_user,
    n_messages,
    convo_lens,
    assistant_message_lens,
    n_too_long,
    n_train_examples,
    n_epochs,
    n_billing_tokens_in_dataset,
    n_billed_tokens,             \* n_epochs * n_billing_tokens_in_dataset (printed)
    fault,                       \* the exception that ended the run, if any
    data_list,                   \* argument of write_jsonl
    out,                         \* characters written to the file so far
    w,                           \* position of `for ddict in data_list`
    dataset_json                 \* the list read back from the file, as JSON values

vars == <<pc, dataset, errors, validated, i, n_missing_system, n_missing_user,
          n_messages, convo_lens, assistant_message_lens, n_too_long,
          n_train_examples, n_epochs, n_billing_tokens_in_dataset,
          n_billed_tokens, fault, data_list, out, w,
          dataset_json>>

(***************************************************************************)
(* Bounds of the model.                                                    *)
(***************************************************************************)
MaxConvos == 2          \* examples per dataset
MaxMessages == 3        \* messages per dataset
ShortLen == 12          \* characters of a short text
LongLen == 16344        \* characters of a long text
MaxExamples == 30000    \* dataset sizes of the epoch-scaling check

(***************************************************************************)
(* Configuration constants of the cost estimation cell.                    *)
(***************************************************************************)
MAX_TOKENS_PER_EXAMPLE == 4096
TARGET_EPOCHS == 3
MIN_TARGET_EXAMPLES == 100
MAX_TARGET_EXAMPLES == 25000
MIN_DEFAULT_EPOCHS == 1
MAX_DEFAULT_EPOCHS == 25
ContextLimit == 4096    \* the literal of the n_too_long line

Min(a, b) == IF a <= b THEN a ELSE b
Max(a, b) == IF a >= b THEN a ELSE b

RECURSIVE SumSeq(_)
SumSeq(s) == IF s = <<>> THEN 0 ELSE Head(s) + SumSeq(Tail(s))

RECURSIVE SumTo(_, _)
\* f[1] + ... + f[n]
SumTo(f, n) == IF n = 0 THEN 0 ELSE f[n] + SumTo(f, n - 1)

\* the k-th piece of flat when it is cut into pieces of lengths lens[1], lens[2], ...
Slice(flat, lens, k) ==
    [j \in 1..lens[k] |-> flat[SumTo(lens, k - 1) + j]]

(***************************************************************************)
(* Data model.  A message is a JSON value: obj says whether it is a        *)
(* mapping, keys are the keys it has, role and content are the values of   *)
(* those keys.  A content value is a string of len characters (str) or a   *)
(* value of another type.  An example has keys, and under "messages" a     *)
(* list (islist) of messages or some other value; iterable says whether    *)
(* `for message in messages` can run over it, messages are its items.      *)
(***************************************************************************)
Text(n) == [str |-> TRUE, len |-> n]
NonText == [str |-> FALSE, len |-> 0]
NoValue == [str |-> FALSE, len |-> 0]

Msg(role, content) ==
    [obj |-> TRUE, keys |-> {"role", "content"}, role |-> role, content |-> content]
NoRoleMsg == [obj |-> TRUE, keys |-> {"content"}, role |-> "", content |-> Text(ShortLen)]
NoContentMsg == [obj |-> TRUE, keys |-> {"role"}, role |-> "user", content |-> NoValue]
ExtraKeyMsg ==
    [obj |-> TRUE, keys |-> {"role", "content", "weight"}, role |-> "assistant",
     content |-> Text(ShortLen)]
NonObjectMsg == [obj |-> FALSE, keys |-> {}, role |-> "", content |-> NoValue]

Example(msgs) ==
    [keys |-> {"messages"}, islist |-> TRUE, iterable |-> TRUE, messages |-> msgs]
NoMessagesExample ==
    [keys |-> {}, islist |-> FALSE, iterable |-> FALSE, messages |-> <<>>]
\* "messages" is null or a number (a non-empty string or dict ends the loop
\* the same way, with a TypeError on its first item)
BadMessagesExample ==
    [keys |-> {"messages"}, islist |-> FALSE, iterable |-> FALSE, messages |-> <<>>]
\* "messages" is an empty string or an empty dict
EmptyMessagesExample ==
    [keys |-> {"messages"}, islist |-> FALSE, iterable |-> TRUE, messages |-> <<>>]

\* length in characters of the role strings
StrLen(s) ==
    CASE s = "system" -> 6
      [] s = "user" -> 4
      [] s = "assistant" -> 9
      [] s = "bot" -> 3
      [] OTHER -> 0

(***************************************************************************)
(* Format Validator (check_format_errors).  An issue names the example     *)
(* (1-based), the message (0 when the issue is about the example) and the  *)
(* reason.                                                                 *)
(***************************************************************************)
RecognizedExampleKeys == {"messages"}
RecognizedMessageKeys == {"role", "content", "name", "function_call"}
Roles == {"system", "user", "assistant"}

Issue(c, m, reason) == [convo |-> c, msg |-> m, reason |-> reason]

HasMessagesList(ex) == "messages" \in ex.keys /\ ex.islist

\* issues of one message, in the order of the checks
MessageIssues(c, j, m) ==
    IF ~m.obj THEN <<Issue(c, j, "message is not a valid object")>>
    ELSE (IF "role" \notin m.keys THEN <<Issue(c, j, "missing role")>>
          ELSE IF m.role \notin Roles THEN <<Issue(c, j, "unrecognized role")>>
          ELSE <<>>)
      \o (IF "content" \notin m.keys /\ "function_call" \notin m.keys
          THEN <<Issue(c, j, "missing content")>> ELSE <<>>)
      \o (IF m.keys \ RecognizedMessageKeys # {}
          THEN <<Issue(c, j, "unrecognized key")>> ELSE <<>>)

RECURSIVE MessagesIssues(_, _, _)
MessagesIssues(c, msgs, j) ==
    IF j > Len(msgs) THEN <<>>
    ELSE MessageIssues(c, j, msgs[j]) \o MessagesIssues(c, msgs, j + 1)

IsAssistant(m) == m.obj /\ "role" \in m.keys /\ m.role = "assistant"

\* issues of one example
ExampleIssues(c, ex) ==
    LET msgs == IF HasMessagesList(ex) THEN ex.messages ELSE <<>>
    IN  (IF ~HasMessagesList(ex)
         THEN <<Issue(c, 0, "missing/invalid messages list")>> ELSE <<>>)
     \o (IF ex.keys \ RecognizedExampleKeys # {}
         THEN <<Issue(c, 0, "unrecognized top-level key")>> ELSE <<>>)
     \o MessagesIssues(c, msgs, 1)
     \o (IF \A j \in 1..Len(msgs) : ~IsAssistant(msgs[j])
         THEN <<Issue(c, 0, "example missing assistant message")>> ELSE <<>>)

RECURSIVE FormatErrorsFrom(_, _)
FormatErrorsFrom(ds, c) ==
    IF c > Len(ds) THEN <<>>
    ELSE ExampleIssues(c, ds[c]) \o FormatErrorsFrom(ds, c + 1)

RECURSIVE FailFastErrorsFrom(_, _)
\* a validator that stops at the first example with an issue
FailFastErrorsFrom(ds, c) ==
    IF c > Len(ds) THEN <<>>
    ELSE IF ExampleIssues(c, ds[c]) # <<>> THEN ExampleIssues(c, ds[c])
    ELSE FailFastErrorsFrom(ds, c + 1)

check_format_errors_failfast(ds) == FailFastErrorsFrom(ds, 1)

check_format_errors(ds) == FormatErrorsFrom(ds, 1)

(***************************************************************************)
(* Counting strategy and the two counters of token_counter.                *)
(***************************************************************************)
tokens_per_message == 3
tokens_trailing == 3

\* the counting strategy: tokens of a text of n characters
count(n) == (n \div 4) + 1

\* a message the counting strategy cannot process
Uncountable(m) == ~m.obj \/ ("content" \in m.keys /\ ~m.content.str)

RoleTokens(m) == IF "role" \in m.keys THEN count(StrLen(m.role)) ELSE 0
ContentTokens(m) == IF "content" \in m.keys THEN count(m.content.len) ELSE 0

RECURSIVE MessagesTokens(_)
MessagesTokens(msgs) ==
    IF msgs = <<>> THEN 0
    ELSE tokens_per_message + RoleTokens(Head(msgs)) + ContentTokens(Head(msgs))
         + MessagesTokens(Tail(msgs))

\* result of a counter: ok and the count, or a failure of the strategy
Counted(n) == [ok |-> TRUE, n |-> n]
CountFailed == [ok |-> FALSE, n |-> 0]

num_tokens_from_messages(msgs) ==
    IF \E j \in 1..Len(msgs) : Uncountable(msgs[j]) THEN CountFailed
    ELSE Counted(MessagesTokens(msgs) + tokens_trailing)

RECURSIVE AssistantTokens(_)
AssistantTokens(msgs) ==
    IF msgs = <<>> THEN 0
    ELSE (IF IsAssistant(Head(msgs))
          THEN tokens_per_message + ContentTokens(Head(msgs)) ELSE 0)
         + AssistantTokens(Tail(msgs))

num_assistant_tokens_from_messages(msgs) ==
    IF \E j \in 1..Len(msgs) : Uncountable(msgs[j]) THEN CountFailed
    ELSE Counted(AssistantTokens(msgs))

(***************************************************************************)
(* The token counts cell.                                                  *)
(***************************************************************************)
NoFault == [exc |-> "none", arg |-> "", cell |-> "none", index |-> 0]
\* An exception as the cell raises it: its type, its argument and the cell
\* it left.  No statement of the notebook attaches the position of the
\* example to an exception, so index stays 0.
Raised(exc, arg, cell) == [exc |-> exc, arg |-> arg, cell |-> cell, index |-> 0]

\* a test that looks at the first message only
RoleScanFirstOnly(msgs, role, j) ==
    IF j > Len(msgs) THEN "False"
    ELSE IF ~msgs[j].obj THEN "TypeError"
    ELSE IF "role" \notin msgs[j].keys THEN "KeyError"
    ELSE IF msgs[j].role = role THEN "True"
    ELSE "False"

RECURSIVE RoleScan(_, _, _)
\* any(message["role"] == role for message in messages), left to right,
\* stopping at the first match: "True", "False", or the exception raised
\* by message["role"] on the way
RoleScan(msgs, role, j) ==
    IF j > Len(msgs) THEN "False"
    ELSE IF ~msgs[j].obj THEN "TypeError"
    ELSE IF "role" \notin msgs[j].keys THEN "KeyError"
    ELSE IF msgs[j].role = role THEN "True"
    ELSE RoleScan(msgs, role, j + 1)

costVars == <<n_train_examples, n_epochs, n_billing_tokens_in_dataset, n_billed_tokens>>
fileVars == <<data_list, out, w, dataset_json>>
statVars == <<n_missing_system, n_missing_user, n_messages, convo_lens,
              assistant_message_lens>>

\* errors = check_format_errors(dataset)
ValidateCell ==
    /\ pc = "validate"
    /\ errors' = check_format_errors(dataset)
    /\ validated' = TRUE
    /\ pc' = "token_counts"
    /\ UNCHANGED <<dataset, i, statVars, n_too_long, costVars, fault, fileVars>>

\* a token counts cell that does not wait for the validation cell
TokenCountsStartUnordered ==
    /\ pc \in {"validate", "token_counts"}
    /\ n_missing_system' = 0
    /\ n_missing_user' = 0
    /\ n_messages' = <<>>
    /\ convo_lens' = <<>>
    /\ assistant_message_lens' = <<>>
    /\ i' = 1
    /\ pc' = "loop"
    /\ UNCHANGED <<dataset, errors, validated, n_too_long, costVars, fault, fileVars>>

\* the accumulators are reset and the loop is entered
TokenCountsStart ==
    /\ pc = "token_counts"
    /\ n_missing_system' = 0
    /\ n_missing_user' = 0
    /\ n_messages' = <<>>
    /\ convo_lens' = <<>>
    /\ assistant_message_lens' = <<>>
    /\ i' = 1
    /\ pc' = "loop"
    /\ UNCHANGED <<dataset, errors, validated, n_too_long, costVars, fault, fileVars>>

\* one iteration of `for ex in dataset`
LoopIter ==
    /\ pc = "loop"
    /\ i <= Len(dataset)
    /\ LET ex == dataset[i]
           messages == ex.messages
           sys == RoleScan(messages, "system", 1)
           usr == RoleScan(messages, "user", 1)
           missSys == n_missing_system + (IF sys = "False" THEN 1 ELSE 0)
           missUsr == n_missing_user + (IF usr = "False" THEN 1 ELSE 0)
           total == num_tokens_from_messages(messages)
           asst == num_assistant_tokens_from_messages(messages)
           Stop(exc, arg, ms, mu, nm, cl) ==
               /\ pc' = "fault"
               /\ fault' = Raised(exc, arg, "token_counts")
               /\ n_missing_system' = ms
               /\ n_missing_user' = mu
               /\ n_messages' = nm
               /\ convo_lens' = cl
               /\ UNCHANGED <<i, assistant_message_lens>>
       IN  IF "messages" \notin ex.keys
           THEN Stop("KeyError", "messages", n_missing_system, n_missing_user,
                     n_messages, convo_lens)
           ELSE IF ~ex.iterable
           THEN Stop("TypeError", "", n_missing_system, n_missing_user,
                     n_messages, convo_lens)
           ELSE IF sys \in {"KeyError", "TypeError"}
           THEN Stop(sys, IF sys = "KeyError" THEN "role" ELSE "",
                     n_missing_system, n_missing_user, n_messages, convo_lens)
           ELSE IF usr \in {"KeyError", "TypeError"}
           THEN Stop(usr, IF usr = "KeyError" THEN "role" ELSE "",
                     missSys, n_missing_user, n_messages, convo_lens)
           ELSE IF ~total.ok
           THEN Stop("CountingFailure", "", missSys, missUsr,
                     Append(n_messages, Len(messages)), convo_lens)
           ELSE IF ~asst.ok
           THEN Stop("CountingFailure", "", missSys, missUsr,
                     Append(n_messages, Len(messages)), Append(convo_lens, total.n))
           ELSE /\ n_missing_system' = missSys
                /\ n_missing_user' = missUsr
                /\ n_messages' = Append(n_messages, Len(messages))
                /\ convo_lens' = Append(convo_lens, total.n)
                /\ assistant_message_lens' = Append(assistant_message_lens, asst.n)
                /\ i' = i + 1
                /\ UNCHANGED <<pc, fault>>
    /\ UNCHANGED <<dataset, errors, validated, n_too_long, costVars, fileVars>>

\* a count that takes a total of exactly the limit as too long
TooLongInclusive(lens) == Cardinality({k \in 1..Len(lens) : lens[k] >= ContextLimit})

\* sum(l > 4096 for l in convo_lens)
TooLong(lens) == Cardinality({k \in 1..Len(lens) : lens[k] > ContextLimit})

\* the loop is exhausted: the report lines and n_too_long
LoopExit ==
    /\ pc = "loop"
    /\ i > Len(dataset)
    /\ n_too_long' = TooLong(convo_lens)
    /\ pc' = "cost"
    /\ UNCHANGED <<dataset, errors, validated, i, statVars, costVars, fault, fileVars>>

(***************************************************************************)
(* The cost estimation cell.                                               *)
(***************************************************************************)
\* the epoch scaling divides by n: ZeroDivisionError when it is taken with n = 0
EpochScalingFaults(n) == n * TARGET_EPOCHS < MIN_TARGET_EXAMPLES /\ n = 0

\* a scaling whose scale-down branch divides the minimum target
EffectiveEpochsWrongTarget(n) ==
    IF n * TARGET_EPOCHS < MIN_TARGET_EXAMPLES
    THEN Min(MAX_DEFAULT_EPOCHS, MIN_TARGET_EXAMPLES \div n)
    ELSE IF n * TARGET_EPOCHS > MAX_TARGET_EXAMPLES
    THEN Max(MIN_DEFAULT_EPOCHS, MIN_TARGET_EXAMPLES \div n)
    ELSE TARGET_EPOCHS

\* a scaling whose scale-up branch is not bounded
EffectiveEpochsUnbounded(n) ==
    IF n * TARGET_EPOCHS < MIN_TARGET_EXAMPLES
    THEN MIN_TARGET_EXAMPLES \div n
    ELSE IF n * TARGET_EPOCHS > MAX_TARGET_EXAMPLES
    THEN Max(MIN_DEFAULT_EPOCHS, MAX_TARGET_EXAMPLES \div n)
    ELSE TARGET_EPOCHS

\* n_epochs as the cell computes it from n_train_examples
EffectiveEpochs(n) ==
    IF n * TARGET_EPOCHS < MIN_TARGET_EXAMPLES
    THEN Min(MAX_DEFAULT_EPOCHS, MIN_TARGET_EXAMPLES \div n)
    ELSE IF n * TARGET_EPOCHS > MAX_TARGET_EXAMPLES
    THEN Max(MIN_DEFAULT_EPOCHS, MAX_TARGET_EXAMPLES \div n)
    ELSE TARGET_EPOCHS

\* a sum without the cap per example
BillingTokensUncapped(lens) == SumSeq(lens)

RECURSIVE BillingTokens(_)
\* sum(min(MAX_TOKENS_PER_EXAMPLE, length) for length in convo_lens)
BillingTokens(lens) ==
    IF lens = <<>> THEN 0
    ELSE Min(MAX_TOKENS_PER_EXAMPLE, Head(lens)) + BillingTokens(Tail(lens))

CostCell ==
    /\ pc = "cost"
    /\ n_train_examples' = Len(dataset)
    /\ IF EpochScalingFaults(Len(dataset))
       THEN /\ pc' = "fault"
            /\ fault' = Raised("ZeroDivisionError", "", "cost")
            /\ n_epochs' = TARGET_EPOCHS
            /\ UNCHANGED <<n_billing_tokens_in_dataset, n_billed_tokens>>
       ELSE /\ n_epochs' = EffectiveEpochs(Len(dataset))
            /\ n_billing_tokens_in_dataset' = BillingTokens(convo_lens)
            /\ n_billed_tokens' = EffectiveEpochs(Len(dataset)) * BillingTokens(convo_lens)
            /\ pc' = "done"
            /\ UNCHANGED fault
    /\ UNCHANGED <<dataset, errors, validated, i, statVars, n_too_long, fileVars>>

\* n_epochs of the cost estimation cell, applied to a dataset size alone
EpochScaling ==
    /\ pc = "epochs"
    /\ n_epochs' = EffectiveEpochs(n_train_examples)
    /\ pc' = "epochs_done"
    /\ UNCHANGED <<dataset, errors, validated, i, statVars, n_too_long,
                   n_train_examples, n_billing_tokens_in_dataset, n_billed_tokens,
                   fault, fileVars>>

(***************************************************************************)
(* Datasets the cells are run on.                                          *)
(***************************************************************************)
\* messages that matter to the token counts: the three roles, a long
\* reply, a message without role, a content that is not text
AccountMsgs ==
    {Msg("system", Text(ShortLen)), Msg("user", Text(ShortLen)),
     Msg("assistant", Text(ShortLen)), Msg("assistant", Text(LongLen)),
     NoRoleMsg, Msg("user", NonText)}

\* messages that matter to the validator
ValidateMsgs ==
    {Msg("assistant", Text(ShortLen)), Msg("bot", Text(ShortLen)),
     NoRoleMsg, NoContentMsg, ExtraKeyMsg, NonObjectMsg}

\* what an example of the dataset looks like at the top level
AccountShapes == {"list", "no_messages", "empty_messages"}
ValidateShapes == {"list", "no_messages", "bad_messages", "empty_messages", "extra_key"}
SpecialShapes == {"no_messages", "bad_messages", "empty_messages"}

ShapedExample(shape, msgs) ==
    CASE shape = "list" -> Example(msgs)
      [] shape = "no_messages" -> NoMessagesExample
      [] shape = "bad_messages" -> BadMessagesExample
      [] shape = "empty_messages" -> EmptyMessagesExample
      [] shape = "extra_key" ->
            [keys |-> {"messages", "id"}, islist |-> TRUE, iterable |-> TRUE,
             messages |-> msgs]

\* ds is a dataset of at most MaxConvos examples and MaxMessages messages in
\* all, the messages taken from msgs and the examples of the given shapes
\* (an example with an extra key has one message)
IsDataset(ds, msgs, shapes) ==
    \E c \in 0..MaxConvos :
      \E lens \in [1..c -> 0..MaxMessages] :
        /\ SumTo(lens, c) <= MaxMessages
        /\ \E shape \in [1..c -> shapes] :
             /\ \A k \in 1..c : shape[k] \in SpecialShapes => lens[k] = 0
             /\ \A k \in 1..c : shape[k] = "extra_key" => lens[k] = 1
             /\ \E flat \in [1..SumTo(lens, c) -> msgs] :
                  ds = [k \in 1..c |-> ShapedExample(shape[k], Slice(flat, lens, k))]

InitRest ==
    /\ errors = <<>>
    /\ validated = FALSE
    /\ i = 0
    /\ n_missing_system = 0
    /\ n_missing_user = 0
    /\ n_messages = <<>>
    /\ convo_lens = <<>>
    /\ assistant_message_lens = <<>>
    /\ n_too_long = 0
    /\ n_epochs = 0
    /\ n_billing_tokens_in_dataset = 0
    /\ n_billed_tokens = 0
    /\ fault = NoFault

NoFile ==
    /\ data_list = <<>>
    /\ out = <<>>
    /\ w = 0
    /\ dataset_json = <<>>

Init ==
    /\ pc = "validate"
    /\ IsDataset(dataset, AccountMsgs, AccountShapes)
    /\ n_train_examples = 0
    /\ InitRest
    /\ NoFile

InitValidate ==
    /\ pc = "validate"
    /\ IsDataset(dataset, ValidateMsgs, ValidateShapes)
    /\ n_train_examples = 0
    /\ InitRest
    /\ NoFile

InitEpochs ==
    /\ pc = "epochs"
    /\ dataset = <<>>
    /\ n_train_examples \in 1..MaxExamples
    /\ InitRest
    /\ NoFile

Next ==
    \/ ValidateCell
    \/ TokenCountsStart
    \/ LoopIter
    \/ LoopExit
    \/ CostCell

NextEpochs == EpochScaling

Spec == Init /\ [][Next]_vars
SpecValidate == InitValidate /\ [][Next]_vars
SpecEpochs == InitEpochs /\ [][NextEpochs]_vars

(***************************************************************************)
(* JSON values and text as json.dumps writes it and json.loads reads it.   *)
(* A text is a sequence of characters.  A value is a string (s), a list    *)
(* (items: values) or a dict (items: key/value pairs in insertion order).  *)
(***************************************************************************)
LF == "\n"
CR == "\r"
QUOTE == "\""
BSLASH == "\\"
TAB == "\t"
FORMFEED == "\f"
BACKSPACE == "U+0008"
NUL == "U+0000"         \* a control character without a short escape
DEL == "U+007F"
EACUTE == "U+00E9"      \* a character outside ASCII

\* the characters json.dumps writes as \uXXXX, and their four digits
UnicodeEscaped == {NUL, DEL, EACUTE}
Hex4(c) ==
    CASE c = NUL -> <<"0", "0", "0", "0">>
      [] c = DEL -> <<"0", "0", "7", "f">>
      [] c = EACUTE -> <<"0", "0", "e", "9">>

JStr(s) == [t |-> "str", s |-> s, items |-> <<>>]
JList(items) == [t |-> "list", s |-> <<>>, items |-> items]
JDict(items) == [t |-> "dict", s |-> <<>>, items |-> items]
Pair(k, v) == [k |-> k, v |-> v]

\* an escaping that leaves line breaks as they are
EscapeCharKeepsNewline(c) ==
    CASE c = QUOTE -> <<BSLASH, QUOTE>>
      [] c = BSLASH -> <<BSLASH, BSLASH>>
      [] c = CR -> <<BSLASH, "r">>
      [] c = TAB -> <<BSLASH, "t">>
      [] c = BACKSPACE -> <<BSLASH, "b">>
      [] c = FORMFEED -> <<BSLASH, "f">>
      [] c \in UnicodeEscaped -> <<BSLASH, "u">> \o Hex4(c)
      [] OTHER -> <<c>>

\* json.dumps of one character of a string (ensure_ascii=True)
EscapeChar(c) ==
    CASE c = QUOTE -> <<BSLASH, QUOTE>>
      [] c = BSLASH -> <<BSLASH, BSLASH>>
      [] c = LF -> <<BSLASH, "n">>
      [] c = CR -> <<BSLASH, "r">>
      [] c = TAB -> <<BSLASH, "t">>
      [] c = BACKSPACE -> <<BSLASH, "b">>
      [] c = FORMFEED -> <<BSLASH, "f">>
      [] c \in UnicodeEscaped -> <<BSLASH, "u">> \o Hex4(c)
      [] OTHER -> <<c>>

\* first position from p on whose character is in S, Len(s) + 1 if none
FirstIn(s, p, S) ==
    LET T == {q \in p..Len(s) : s[q] \in S}
    IN  IF T = {} THEN Len(s) + 1 ELSE CHOOSE q \in T : \A r \in T : q <= r

\* the characters json.dumps does not copy: quote, backslash and everything
\* outside the printable ASCII range
Escaped == {QUOTE, BSLASH, LF, CR, TAB, BACKSPACE, FORMFEED} \cup UnicodeEscaped

RECURSIVE EscapeFrom(_, _)
\* the characters from p on: plain runs are copied, the others escaped
EscapeFrom(s, p) ==
    LET q == FirstIn(s, p, Escaped)
    IN  IF q > Len(s) THEN SubSeq(s, p, Len(s))
        ELSE SubSeq(s, p, q - 1) \o EscapeChar(s[q]) \o EscapeFrom(s, q + 1)

Escape(s) == EscapeFrom(s, 1)

DumpsStr(s) == <<QUOTE>> \o Escape(s) \o <<QUOTE>>

RECURSIVE dumps(_)
RECURSIVE DumpsItems(_, _)
\* the items of a list or dict, separated by ", "
DumpsItems(v, k) ==
    IF k > Len(v.items) THEN <<>>
    ELSE (IF k > 1 THEN <<",", " ">> ELSE <<>>)
         \o (IF v.t = "dict"
             THEN DumpsStr(v.items[k].k) \o <<":", " ">> \o dumps(v.items[k].v)
             ELSE dumps(v.items[k]))
         \o DumpsItems(v, k + 1)

dumps(v) ==
    CASE v.t = "str" -> DumpsStr(v.s)
      [] v.t = "list" -> <<"[">> \o DumpsItems(v, 1) \o <<"]">>
      [] v.t = "dict" -> <<"{">> \o DumpsItems(v, 1) \o <<"}">>

\* result of a parsing step: the value and the position after it
Parsed(v, p) == [ok |-> TRUE, val |-> v, pos |-> p]
ParseError == [ok |-> FALSE, val |-> JStr(<<>>), pos |-> 0]

Whitespace == {" ", LF, CR, TAB}

RECURSIVE SkipWs(_, _)
SkipWs(s, p) == IF p <= Len(s) /\ s[p] \in Whitespace THEN SkipWs(s, p + 1) ELSE p

\* control characters, which json.loads refuses inside a string
Control == {LF, CR, TAB, BACKSPACE, FORMFEED, NUL}
Special == {QUOTE, BSLASH} \cup Control

RECURSIVE StrBody(_, _, _)
\* the characters of a string up to its closing quote; p is after the opening
\* one.  A run of plain characters is taken at once.
StrBody(s, p, acc) ==
    LET q == FirstIn(s, p, Special)
        run == acc \o SubSeq(s, p, q - 1)
        e == IF q + 1 <= Len(s) THEN s[q + 1] ELSE ""
    IN  CASE q > Len(s) -> ParseError
          [] q <= Len(s) /\ s[q] = QUOTE -> Parsed(JStr(run), q + 1)
          [] q <= Len(s) /\ s[q] \in Control -> ParseError
          [] q <= Len(s) /\ s[q] = BSLASH /\ e = QUOTE -> StrBody(s, q + 2, Append(run, QUOTE))
          [] q <= Len(s) /\ s[q] = BSLASH /\ e = BSLASH -> StrBody(s, q + 2, Append(run, BSLASH))
          [] q <= Len(s) /\ s[q] = BSLASH /\ e = "n" -> StrBody(s, q + 2, Append(run, LF))
          [] q <= Len(s) /\ s[q] = BSLASH /\ e = "r" -> StrBody(s, q + 2, Append(run, CR))
          [] q <= Len(s) /\ s[q] = BSLASH /\ e = "/" -> StrBody(s, q + 2, Append(run, "/"))
          [] q <= Len(s) /\ s[q] = BSLASH /\ e = "t" -> StrBody(s, q + 2, Append(run, TAB))
          [] q <= Len(s) /\ s[q] = BSLASH /\ e = "b" -> StrBody(s, q + 2, Append(run, BACKSPACE))
          [] q <= Len(s) /\ s[q] = BSLASH /\ e = "f" -> StrBody(s, q + 2, Append(run, FORMFEED))
          [] q <= Len(s) /\ s[q] = BSLASH /\ e = "u" /\ q + 5 <= Len(s)
                 /\ \E c \in UnicodeEscaped : Hex4(c) = SubSeq(s, q + 2, q + 5)
               -> StrBody(s, q + 6,
                          Append(run, CHOOSE c \in UnicodeEscaped :
                                          Hex4(c) = SubSeq(s, q + 2, q + 5)))
          [] OTHER -> ParseError

RECURSIVE ParseValue(_, _)
RECURSIVE ListItems(_, _, _)
RECURSIVE DictItems(_, _, _)

\* the items of a list; p is at the first character of an item
ListItems(s, p, acc) ==
    LET item == ParseValue(s, p)
        q == SkipWs(s, item.pos)
    IN  IF ~item.ok \/ q > Len(s) THEN ParseError
        ELSE IF s[q] = "]" THEN Parsed(JList(Append(acc, item.val)), q + 1)
        ELSE IF s[q] = "," THEN ListItems(s, SkipWs(s, q + 1), Append(acc, item.val))
        ELSE ParseError

\* the pairs of a dict; p is at the opening quote of a key
DictItems(s, p, acc) ==
    IF p > Len(s) \/ s[p] # QUOTE THEN ParseError
    ELSE LET key == StrBody(s, p + 1, <<>>)
             c == SkipWs(s, key.pos)
         IN  IF ~key.ok \/ c > Len(s) \/ s[c] # ":" THEN ParseError
             ELSE LET item == ParseValue(s, SkipWs(s, c + 1))
                      q == SkipWs(s, item.pos)
                      pairs == Append(acc, Pair(key.val.s, item.val))
                  IN  IF ~item.ok \/ q > Len(s) THEN ParseError
                      ELSE IF s[q] = "}" THEN Parsed(JDict(pairs), q + 1)
                      ELSE IF s[q] = "," THEN DictItems(s, SkipWs(s, q + 1), pairs)
                      ELSE ParseError

ParseValue(s, p) ==
    IF p > Len(s) THEN ParseError
    ELSE IF s[p] = QUOTE THEN StrBody(s, p + 1, <<>>)
    ELSE IF s[p] = "["
         THEN LET q == SkipWs(s, p + 1)
              IN  IF q <= Len(s) /\ s[q] = "]" THEN Parsed(JList(<<>>), q + 1)
                  ELSE ListItems(s, q, <<>>)
    ELSE IF s[p] = "{"
         THEN LET q == SkipWs(s, p + 1)
              IN  IF q <= Len(s) /\ s[q] = "}" THEN Parsed(JDict(<<>>), q + 1)
                  ELSE DictItems(s, q, <<>>)
    ELSE ParseError

\* json.loads(line): one value, whitespace around it, nothing else
loads(line) ==
    LET r == ParseValue(line, SkipWs(line, 1))
    IN  IF r.ok /\ SkipWs(line, r.pos) > Len(line) THEN r ELSE ParseError

RECURSIVE Lines(_, _)
\* `for line in f`: the lines of the file from p on, each with its line end
\* (universal newlines: \n, \r and \r\n end a line and are read as \n)
Lines(s, p) ==
    LET q == FirstIn(s, p, {LF, CR})
        crlf == q < Len(s) /\ s[q] = CR /\ s[q + 1] = LF
    IN  IF p > Len(s) THEN <<>>
        ELSE IF q > Len(s) THEN <<SubSeq(s, p, Len(s))>>
        ELSE <<Append(SubSeq(s, p, q - 1), LF)>>
             \o Lines(s, IF crlf THEN q + 2 ELSE q + 1)

(***************************************************************************)
(* Building the example exchanges.                                         *)
(***************************************************************************)
MaxRows == 2            \* rows of the table
MaxReviewChars == 3     \* characters of all reviews of the table

K_messages == <<"m", "e", "s", "s", "a", "g", "e", "s">>
K_role == <<"r", "o", "l", "e">>
K_content == <<"c", "o", "n", "t", "e", "n", "t">>
S_system == <<"s", "y", "s", "t", "e", "m">>
S_user == <<"u", "s", "e", "r">>
S_assistant == <<"a", "s", "s", "i", "s", "t", "a", "n", "t">>

system_message ==
    <<"Y", "o", "u", " ", "a", "r", "e", " ", "a", " ", "r", "e", "s", "t", "a", "u",
      "r", "a", "n", "t", " ", "r", "e", "v", "i", "e", "w", " ", "a", "n", "a", "l", "y",
      "z", "e", "r", ".", " ", "A", "n", "a", "l", "y", "z", "e", " ", "t", "h", "e", " ",
      "s", "e", "n", "t", "i", "m", "e", "n", "t", " ", "i", "n", " ", "t", "h", "e", " ",
      "r", "e", "v", "i", "e", "w", " ", "p", "r", "o", "v", "i", "d", "e", "d", ".", " ",
      "O", "u", "t", "p", "u", "t", " ", "t", "h", "e", " ", "r", "a", "t", "i", "n", "g",
      " ", "v", "a", "l", "u", "e", " ", "a", "n", "d", " ", "t", "h", "e", " ", "s", "e",
      "n", "t", "i", "m", "e", "n", "t", " ", "a", "s", " ", "J", "S", "O", "N", " ",
      ".">>

create_user_message(row) == <<"R", "e", "v", "i", "e", "w", ":", " ">> \o row.Review

create_assistant_message(row) ==
    <<"{", QUOTE, "r", "a", "t", "i", "n", "g", QUOTE, ":", " ">> \o row.Rating
      \o <<",", " ", QUOTE, "S", "e", "n", "t", "i", "m", "e", "n", "t", QUOTE, ":", " ", QUOTE>>
      \o row.Sentiment \o <<QUOTE, "}", LF>>

JMessage(role, content) ==
    JDict(<<Pair(K_role, JStr(role)), Pair(K_content, JStr(content))>>)

create_full_exchange(row) ==
    JDict(<<Pair(K_messages,
                 JList(<<JMessage(S_system, system_message),
                         JMessage(S_user, create_user_message(row)),
                         JMessage(S_assistant, create_assistant_message(row))>>))>>)

ReviewChars == {"n", QUOTE, BSLASH, LF}
\* a sentiment text with the characters json.dumps escapes
Sentiment == <<"O", "k", EACUTE, CR, TAB, BACKSPACE, FORMFEED, NUL, DEL>>

Row(review) == [Review |-> review, Rating |-> <<"5">>, Sentiment |-> Sentiment]

(***************************************************************************)
(* write_jsonl and the dataset load.                                       *)
(***************************************************************************)
pipeVars == <<dataset, errors, validated, i, statVars, n_too_long, costVars>>

\* one iteration of `for ddict in data_list`
WriteLine ==
    /\ pc = "write"
    /\ w <= Len(data_list)
    /\ out' = out \o dumps(data_list[w]) \o <<LF>>
    /\ w' = w + 1
    /\ UNCHANGED <<pc, data_list, dataset_json, fault, pipeVars>>

\* the loop is exhausted and the file is closed
WriteClose ==
    /\ pc = "write"
    /\ w > Len(data_list)
    /\ pc' = "load"
    /\ UNCHANGED <<data_list, out, w, dataset_json, fault, pipeVars>>

\* dataset = [json.loads(line) for line in f]
LoadCell ==
    /\ pc = "load"
    /\ LET lines == Lines(out, 1)
           parsed == [k \in 1..Len(lines) |-> loads(lines[k])]
       IN  IF \E k \in 1..Len(lines) : ~parsed[k].ok
           THEN /\ pc' = "fault"
                /\ fault' = Raised("JSONDecodeError", "", "load")
                /\ UNCHANGED dataset_json
           ELSE /\ dataset_json' = [k \in 1..Len(lines) |-> parsed[k].val]
                /\ pc' = "loaded"
                /\ UNCHANGED fault
    /\ UNCHANGED <<data_list, out, w, pipeVars>>

\* rows.apply(create_full_exchange, axis=1).tolist()
MapExchange(rows) == [k \in 1..Len(rows) |-> create_full_exchange(rows[k])]

\* dl is the list of exchanges of a table of at most MaxRows rows and
\* MaxReviewChars review characters in all
IsTrainingData(dl) ==
    \E c \in 0..MaxRows :
      \E lens \in [1..c -> 0..MaxReviewChars] :
        /\ SumTo(lens, c) <= MaxReviewChars
        /\ \E flat \in [1..SumTo(lens, c) -> ReviewChars] :
             dl = MapExchange([k \in 1..c |-> Row(Slice(flat, lens, k))])

InitRoundTrip ==
    /\ pc = "write"
    /\ IsTrainingData(data_list)
    /\ out = <<>>
    /\ w = 1
    /\ dataset_json = <<>>
    /\ dataset = <<>>
    /\ n_train_examples = 0
    /\ InitRest

NextRoundTrip ==
    \/ WriteLine
    \/ WriteClose
    \/ LoadCell

SpecRoundTrip == InitRoundTrip /\ [][NextRoundTrip]_vars

\* C7: what the load cell reads back from a file written by write_jsonl is the
\* list that was written: same length, same order, equal messages; the load
\* never fails on such a file.
C7_RoundTrip ==
    /\ pc # "fault"
    /\ pc = "loaded" => dataset_json = data_list

\* two exchanges went through the file: a review that is a line break, then a
\* review that is a backslash followed by n
C7_Witness ==
    /\ pc = "loaded"
    /\ Len(data_list) = 2
    /\ data_list[1].items[1].v.items[2].items[2].v.s
           = <<"R", "e", "v", "i", "e", "w", ":", " ", LF>>
    /\ data_list[2].items[1].v.items[2].items[2].v.s
           = <<"R", "e", "v", "i", "e", "w", ":", " ", BSLASH, "n">>
    /\ dataset_json = data_list

(***************************************************************************)
(* Properties.                                                             *)
(***************************************************************************)
\* total token count of example k of the dataset
TotalTokens(k) == num_tokens_from_messages(dataset[k].messages).n

LoopCompleted == pc \in {"cost", "done"} \/ (pc = "fault" /\ fault.cell = "cost")

\* C1: for a dataset of n >= 1 examples the effective epoch count is
\* min(25, 100 // n) when n*3 < 100, max(1, 25000 // n) when n*3 > 25000, and 3
\* otherwise; 10 examples give 10 epochs and 30000 examples give 1.
C1_EpochCount ==
    pc = "epochs_done" =>
        LET n == n_train_examples
        IN  /\ n * 3 < 100 => n_epochs = Min(25, 100 \div n)
            /\ n * 3 > 25000 => n_epochs = Max(1, 25000 \div n)
            /\ (n * 3 >= 100 /\ n * 3 <= 25000) => n_epochs = 3
            /\ n = 10 => n_epochs = 10
            /\ n = 30000 => n_epochs = 1

\* the scale-down branch was taken with a quotient above the lower bound
C1_Witness == pc = "epochs_done" /\ n_train_examples = 10000 /\ n_epochs = 2

\* C2 (as claimed): on an empty dataset the cost estimation cell completes
\* and the billed-token estimate is zero.
C2_EmptyDatasetCostIsZero ==
    (dataset = <<>> /\ pc \in {"done", "fault"}) => (pc = "done" /\ n_billed_tokens = 0)

\* C3 (as claimed): when validation reported issues, no token statistics and
\* no cost estimate are computed; validation precedes accounting.
C3_AccountingOnlyIfAcceptable ==
    /\ pc \in {"loop", "cost", "done", "fault"} => validated
    /\ (validated /\ errors # <<>>) => pc = "token_counts"

\* C3 (amended): validation precedes accounting, and the token counts cell
\* runs after it whatever issues were reported.
C3_ValidationPrecedesAccounting ==
    /\ pc \in {"loop", "cost", "done", "fault"} => validated
    /\ pc = "token_counts" => ENABLED TokenCountsStart

\* statistics and a cost estimate were computed for a dataset with issues
C3_Witness ==
    /\ pc = "done"
    /\ validated
    /\ errors # <<>>
    /\ Len(convo_lens) = 2
    /\ n_billed_tokens > 0

\* C4: the billable tokens are the sum over the examples of min(4096, total
\* token count), the billed tokens are the effective epochs times that sum,
\* and no example contributes more than 4096.
C4_BillableTokens ==
    pc = "done" =>
        LET billable == [k \in 1..Len(dataset) |-> Min(4096, TotalTokens(k))]
        IN  /\ n_billing_tokens_in_dataset = SumTo(billable, Len(dataset))
            /\ n_billed_tokens = n_epochs * SumTo(billable, Len(dataset))
            /\ n_billing_tokens_in_dataset <= 4096 * Len(dataset)

\* an example above the cap was billed at the cap
C4_Witness ==
    /\ pc = "done"
    /\ Len(dataset) = 2
    /\ convo_lens[1] > 4096
    /\ convo_lens[2] < 4096
    /\ n_billing_tokens_in_dataset = 4096 + convo_lens[2]

\* C5: the validator does not raise and returns every issue of every example,
\* example by example in dataset order, also after a malformed example or
\* message.
ExpectedIssues(ds) ==
    LET Ok(c) == "messages" \in ds[c].keys /\ ds[c].islist
        M(c) == IF Ok(c) THEN ds[c].messages ELSE <<>>
    IN  {Issue(c, 0, "missing/invalid messages list") : c \in {d \in 1..Len(ds) : ~Ok(d)}}
        \cup {Issue(c, 0, "unrecognized top-level key") :
                c \in {d \in 1..Len(ds) : \E key \in ds[d].keys : key # "messages"}}
        \cup {Issue(c, 0, "example missing assistant message") :
                c \in {d \in 1..Len(ds) :
                         ~\E j \in 1..Len(M(d)) :
                            M(d)[j].obj /\ "role" \in M(d)[j].keys
                              /\ M(d)[j].role = "assistant"}}
        \cup UNION {
               {Issue(c, j, "message is not a valid object") :
                    j \in {l \in 1..Len(M(c)) : ~M(c)[l].obj}}
               \cup {Issue(c, j, "missing role") :
                    j \in {l \in 1..Len(M(c)) : M(c)[l].obj /\ "role" \notin M(c)[l].keys}}
               \cup {Issue(c, j, "unrecognized role") :
                    j \in {l \in 1..Len(M(c)) :
                             M(c)[l].obj /\ "role" \in M(c)[l].keys
                               /\ M(c)[l].role \notin {"system", "user", "assistant"}}}
               \cup {Issue(c, j, "missing content") :
                    j \in {l \in 1..Len(M(c)) :
                             M(c)[l].obj /\ M(c)[l].keys \cap {"content", "function_call"} = {}}}
               \cup {Issue(c, j, "unrecognized key") :
                    j \in {l \in 1..Len(M(c)) :
                             M(c)[l].obj
                               /\ M(c)[l].keys \ {"role", "content", "name", "function_call"} # {}}}
               : c \in 1..Len(ds)}

C5_ValidatorExhaustive ==
    /\ pc = "validate" => ENABLED ValidateCell
    /\ pc = "fault" => fault.cell # "validate"
    /\ validated =>
         /\ {errors[k] : k \in 1..Len(errors)} = ExpectedIssues(dataset)
         /\ Len(errors) = Cardinality(ExpectedIssues(dataset))
         /\ \A k, l \in 1..Len(errors) : k < l => errors[k].convo <= errors[l].convo

\* the first example has no messages list and the issues of the second one,
\* whose first message is not an object, were still reported
C5_Witness ==
    /\ validated
    /\ Len(dataset) = 2
    /\ "messages" \notin dataset[1].keys
    /\ \E k \in 1..Len(errors) : errors[k] = Issue(2, 1, "message is not a valid object")
    /\ \E k \in 1..Len(errors) : errors[k] = Issue(2, 2, "unrecognized role")

\* C6 (as claimed): a failure in the token counts loop identifies the example
\* it happened on, and leaves no partial statistics.
C6_FailureIdentifiesExample ==
    (pc = "fault" /\ fault.cell = "token_counts") =>
        /\ fault.index = i
        /\ n_messages = <<>> /\ convo_lens = <<>> /\ assistant_message_lens = <<>>

\* C8: n_too_long is the number of examples whose total token count is above
\* 4096 (exactly 4096 is not); these examples stay in the dataset and in the
\* statistics with their full count, and are billed.
C8_TruncationCount ==
    /\ [](LoopCompleted =>
            /\ n_too_long = Cardinality({k \in 1..Len(dataset) : TotalTokens(k) > 4096})
            /\ Len(convo_lens) = Len(dataset)
            /\ \A k \in 1..Len(dataset) : convo_lens[k] = TotalTokens(k)
            /\ pc = "done" =>
                 n_billing_tokens_in_dataset
                     >= 4096 * Cardinality({k \in 1..Len(dataset) : TotalTokens(k) > 4096}))
    /\ [][dataset' = dataset]_vars

\* one example of exactly 4096 tokens, one above: one is counted
C8_Witness ==
    /\ pc = "done"
    /\ Len(convo_lens) = 2
    /\ convo_lens[1] = 4096
    /\ convo_lens[2] > 4096
    /\ n_too_long = 1

\* C9: after the loop, n_missing_system and n_missing_user count the examples
\* without a system and without a user message, and n_messages, convo_lens
\* and assistant_message_lens have one entry per example, in dataset order.
C9_MissingTallies ==
    LoopCompleted =>
        LET Has(k, role) ==
                \E j \in 1..Len(dataset[k].messages) :
                    /\ "role" \in dataset[k].messages[j].keys
                    /\ dataset[k].messages[j].role = role
        IN  /\ n_missing_system = Cardinality({k \in 1..Len(dataset) : ~Has(k, "system")})
            /\ n_missing_user = Cardinality({k \in 1..Len(dataset) : ~Has(k, "user")})
            /\ Len(n_messages) = Len(dataset)
            /\ Len(convo_lens) = Len(dataset)
            /\ Len(assistant_message_lens) = Len(dataset)
            /\ \A k \in 1..Len(dataset) :
                 /\ n_messages[k] = Len(dataset[k].messages)
                 /\ convo_lens[k] = TotalTokens(k)
                 /\ assistant_message_lens[k]
                      = num_assistant_tokens_from_messages(dataset[k].messages).n

\* an example without system message and one without user message were counted
C9_Witness ==
    /\ pc = "done"
    /\ Len(dataset) = 2
    /\ n_missing_system = 1
    /\ n_missing_user = 1
    /\ n_messages = <<2, 1>>

\* C10: for a dataset of n >= 1 examples the effective epoch count is within
\* MIN_DEFAULT_EPOCHS..MAX_DEFAULT_EPOCHS.
C10_EpochRange ==
    pc = "epochs_done" => (n_epochs >= 1 /\ n_epochs <= 25)

\* a single example: the scale-up branch is held at the upper bound
C10_Witness == pc = "epochs_done" /\ n_train_examples = 1 /\ n_epochs = 25
====
